---- MODULE Spec2Model ----
(***************************************************************************)
(* obsidian_note_chat.py: a note file is a chat transcript.  One run of    *)
(* process_markdown parses the file into turns, filters control markers,   *)
(* rewrites the file with a "Calling <model>..." placeholder, calls the     *)
(* chat client and rewrites the file again with the response or the error. *)
(*                                                                         *)
(* Text is a sequence of one-character strings, so split, strip, replace   *)
(* and join are computed character by character as Python computes them.  *)
(***************************************************************************)
EXTENDS Integers, Sequences, FiniteSets, TLC

VARIABLES file, readable, pc, model, messages, content, buf, outcome, result,
          file0, nwrites, ntruncates, ncalls, log, argc, printed, status

\* What main() has of its own: len(sys.argv), the line it printed or logged
\* last, and the exit status of the process.
main_vars == <<argc, printed, status>>

vars == <<file, readable, pc, model, messages, content, buf, outcome, result,
          file0, nwrites, ntruncates, ncalls, log, main_vars>>

----------------------------------------------------------------------------
(* Bounds of the model.                                                    *)

\* Longest initial file, counted in pieces of FilePieces.
MaxPieces == 3

\* The processes that may run process_markdown against the one file.
Proc == {1, 2}

----------------------------------------------------------------------------
(* Python str operations on sequences of characters.                       *)

\* str.strip() with no argument strips these from both ends.
Whitespace == {" ", "\n", "\t", "\r"}

RECURSIVE LStrip(_)
LStrip(s) ==
    IF s # <<>> /\ Head(s) \in Whitespace THEN LStrip(Tail(s)) ELSE s

RECURSIVE RStrip(_)
RStrip(s) ==
    IF s # <<>> /\ s[Len(s)] \in Whitespace
    THEN RStrip(SubSeq(s, 1, Len(s) - 1))
    ELSE s

Strip(s) == RStrip(LStrip(s))

\* Whether sub occurs in s at position i (1-based).
OccursAt(s, sub, i) ==
    /\ i >= 1
    /\ i + Len(sub) - 1 <= Len(s)
    /\ SubSeq(s, i, i + Len(sub) - 1) = sub

\* str.find: the leftmost position of sub in s, 0 when there is none.
Find(s, sub) ==
    LET hits == {i \in 1..(Len(s) - Len(sub) + 1) : OccursAt(s, sub, i)}
    IN  IF hits = {} THEN 0 ELSE CHOOSE i \in hits : \A j \in hits : i <= j

Contains(s, sub) == Find(s, sub) # 0

\* str.split(sep): leftmost, non-overlapping occurrences of sep cut the text.
RECURSIVE Split(_, _)
Split(s, sep) ==
    LET i == Find(s, sep)
    IN  IF i = 0
        THEN <<s>>
        ELSE <<SubSeq(s, 1, i - 1)>> \o Split(SubSeq(s, i + Len(sep), Len(s)), sep)

\* sep.join(parts)
RECURSIVE Join(_, _)
Join(parts, sep) ==
    IF parts = <<>> THEN <<>>
    ELSE IF Len(parts) = 1 THEN parts[1]
    ELSE parts[1] \o sep \o Join(Tail(parts), sep)

\* str.replace(old, new): every leftmost, non-overlapping occurrence of old.
RECURSIVE Replace(_, _, _)
Replace(s, old, new) ==
    LET i == Find(s, old)
    IN  IF i = 0
        THEN s
        ELSE SubSeq(s, 1, i - 1) \o new
             \o Replace(SubSeq(s, i + Len(old), Len(s)), old, new)

----------------------------------------------------------------------------
(* The literals of the program.                                            *)

\* '---', the separator of parse_markdown_file.
Delimiter == <<"-", "-", "-">>

\* ['cc', 'c0', 'c1', 'c2', 'c3', 'c4', 'c5', 'c6', 'c7']
ControlMarkers ==
    {<<"c", "c">>, <<"c", "0">>, <<"c", "1">>, <<"c", "2">>, <<"c", "3">>,
     <<"c", "4">>, <<"c", "5">>, <<"c", "6">>, <<"c", "7">>}

\* 'claude-3-7-sonnet-latest'
DefaultModel ==
    <<"c", "l", "a", "u", "d", "e", "-", "3", "-", "7", "-", "s", "o", "n", "n", "e", "t", "-", "l", "a", "t", "e", "s", "t">>

\* "\n\n---\n\n", which opens every block the program appends.
BlockOpen == <<"\n", "\n", "-", "-", "-", "\n", "\n">>

\* "Calling {model}..."
CallingText(m) == <<"C", "a", "l", "l", "i", "n", "g", " ">> \o m \o <<".", ".", ".">>

\* Mutant of PlaceholderBlock: the delimiter in front of the text is missing.
PlaceholderBlockUndelimited(m) == <<"\n", "\n">> \o CallingText(m) \o <<"\n">>

\* f"\n\n---\n\nCalling {model}...\n", the second write of the insertion.
PlaceholderBlock(m) == BlockOpen \o CallingText(m) \o <<"\n">>

\* f"\n\n---\n\nCalling {model}...", the text the resolve step replaces by "".
PlaceholderPattern(m) == BlockOpen \o CallingText(m)

\* f"\n\n---\n\n{response}\n\n---\n\n"
ResponseBlock(response) == BlockOpen \o response \o BlockOpen

\* f"\n\n---\n\nError: {str(e)}\n\n---\n\n"
ErrorBlock(e) == BlockOpen \o <<"E", "r", "r", "o", "r", ":", " ">> \o e \o BlockOpen

----------------------------------------------------------------------------
(* filter_messages and parse_markdown_file.                                *)

\* Mutant of IsControlMarker: a substring test in place of the exact match.
IsControlMarkerSubstring(text) ==
    \E marker \in ControlMarkers : Contains(text, marker)

\* msg['content'].strip() in [...]: a turn that is only a control marker.
IsControlMarker(text) == Strip(text) \in ControlMarkers

\* Mutant of filter_messages: nothing is filtered out.
filter_messages_unfiltered(msgs) == msgs

\* filter_messages(messages)
filter_messages(msgs) ==
    SelectSeq(msgs, LAMBDA msg : ~IsControlMarker(msg.content))

\* Mutant of RoleOf: the two roles exchanged.
RoleOfSwapped(i) == IF i % 2 = 0 THEN "assistant" ELSE "user"

\* role = "user" if i % 2 == 0 else "assistant"
RoleOf(i) == IF i % 2 = 0 THEN "user" ELSE "assistant"

\* Mutant of SingleMessage: the content is not stripped.
SingleMessageUntrimmed(text) == <<[role |-> "user", content |-> text]>>

\* The branch without a delimiter: the whole content is one user message.
SingleMessage(text) == <<[role |-> "user", content |-> Strip(text)]>>

\* Mutant of BlockMessages: the role follows the position among the blocks
\* that are kept, not the index among all blocks.
BlockMessagesRenumbered(blocks, i) ==
    LET kept == SelectSeq(blocks, LAMBDA block : Strip(block) # <<>>)
    IN  [k \in 1..Len(kept) |->
            [role |-> RoleOf(k - 1), content |-> Strip(kept[k])]]

\* for i, block in enumerate(blocks): the messages of blocks i, i+1, ...
\* (i counts from 0 as enumerate does).
RECURSIVE BlockMessages(_, _)
BlockMessages(blocks, i) ==
    IF i >= Len(blocks) THEN <<>>
    ELSE (IF Strip(blocks[i + 1]) # <<>>
          THEN <<[role |-> RoleOf(i), content |-> Strip(blocks[i + 1])]>>
          ELSE <<>>)
         \o BlockMessages(blocks, i + 1)

\* The messages parse_markdown_file builds from the content it read.
ParseContent(text) ==
    LET blocks == Split(text, Delimiter)
    IN  IF Len(blocks) = 1 THEN SingleMessage(text) ELSE BlockMessages(blocks, 0)

\* Mutant of parse_markdown_file: a read error yields an empty list, not None.
parse_markdown_file_swallowing(canRead, text) ==
    [none |-> FALSE, list |-> IF canRead THEN ParseContent(text) ELSE <<>>]

\* parse_markdown_file(file_path): None when reading raises, else the messages.
parse_markdown_file(canRead, text) ==
    IF canRead
    THEN [none |-> FALSE, list |-> ParseContent(text)]
    ELSE [none |-> TRUE, list |-> <<>>]

\* Mutant of IsControlLine: the line is compared without being stripped.
IsControlLineUnstripped(line) == line \in ControlMarkers

\* line.strip() in [...] of line 65: a line that is only a control marker.
IsControlLine(line) == Strip(line) \in ControlMarkers

\* Lines 64-65 of process_markdown: drop the lines that are only a marker.
ScrubLines(text) ==
    LET content_lines == Split(Strip(text), <<"\n">>)
    IN  Join(SelectSeq(content_lines, LAMBDA line : ~IsControlLine(line)),
             <<"\n">>)

\* Mutant of RemovePlaceholder: replace(..., 1), the first occurrence only.
RemoveFirstPlaceholder(text, m) ==
    LET i == Find(text, PlaceholderPattern(m))
    IN  IF i = 0 THEN text
        ELSE SubSeq(text, 1, i - 1)
             \o SubSeq(text, i + Len(PlaceholderPattern(m)), Len(text))

\* content.replace(f"\n\n---\n\nCalling {model}...", "")
RemovePlaceholder(text, m) == Replace(text, PlaceholderPattern(m), <<>>)

\* if not model: model = 'claude-3-7-sonnet-latest'
EffectiveModel(m) == IF m = <<>> THEN DefaultModel ELSE m

----------------------------------------------------------------------------
(* The inputs the model draws from.                                        *)

\* The pieces an initial file is put together from: ordinary text, white
\* space, hyphens and the delimiter, control markers and a near miss, and
\* the placeholder block a crashed run of model "m" leaves behind.
FilePieces ==
    {<<"a">>, <<" ">>, <<"\n">>, <<"-">>, Delimiter,
     <<"c", "c">>, <<"c", "7">>, <<"c", "8">>,
     PlaceholderPattern(<<"m">>)}

RECURSIVE TextsOf(_)
TextsOf(n) ==
    IF n = 0 THEN {<<>>}
    ELSE LET shorter == TextsOf(n - 1)
         IN  shorter \cup {t \o piece : t \in shorter, piece \in FilePieces}

\* The two files of the scenarios: "Hello" and "Q1\n---\nA1\n---\ncc".
HelloFile == <<"H", "e", "l", "l", "o">>
TranscriptFile ==
    <<"Q", "1", "\n", "-", "-", "-", "\n", "A", "1", "\n", "-", "-", "-", "\n",
      "c", "c">>
ScenarioFiles == {HelloFile, TranscriptFile}

\* Every initial content of the note file.
Files == TextsOf(MaxPieces) \cup ScenarioFiles

\* The model argument: absent (None or "") or given.
ModelArgs == {<<>>, <<"m">>}

\* What chat.send_message returns, and str(e) of what it raises.
Responses == {<<>>, <<"H", "i", "!">>}
Errors == {<<"e">>, <<"4", "0", "1">>}

----------------------------------------------------------------------------
(* The state: the file on disk and each run of process_markdown.           *)

None == [none |-> TRUE, text |-> <<>>]
NoMessages == [none |-> TRUE, list |-> <<>>]
NoOutcome == [raised |-> FALSE, text |-> <<>>]

\* A run that has been started, whatever its position.
Running(p) == pc[p] \notin {"idle", "done", "crashed"}

\* The state every specification starts from, but for file, pc, model, outcome.
InitRest ==
    /\ messages = [p \in Proc |-> NoMessages]
    /\ content = [p \in Proc |-> <<>>]
    /\ buf = [p \in Proc |-> <<>>]
    /\ result = [p \in Proc |-> None]
    /\ file0 = file
    /\ nwrites = 0
    /\ ntruncates = 0
    /\ ncalls = 0
    /\ log = <<>>
    /\ printed = "nothing"
    /\ status = "running"

\* main() calls process_markdown(file_path, model) once: run 1 starts, run 2
\* does not exist.
Init ==
    /\ file \in Files
    /\ readable \in BOOLEAN
    /\ \E m \in ModelArgs :
           /\ model = [p \in Proc |-> IF p = 1 THEN m ELSE <<>>]
           /\ argc = IF m = <<>> THEN 2 ELSE 3
    /\ pc = [p \in Proc |-> IF p = 1 THEN "start" ELSE "idle"]
    /\ outcome = [p \in Proc |-> NoOutcome]
    /\ InitRest

\* file.write through the buffered file object: the pending text reaches the
\* disk at the file position, which seek(0) has set to the start.
Flush(disk, pending) ==
    pending \o SubSeq(disk, Len(pending) + 1, Len(disk))

\* Line 50-53: parse; None aborts the run with no further step.
Parse(p) ==
    /\ pc[p] = "start"
    /\ LET parsed == parse_markdown_file(readable, file)
       IN  /\ messages' = [messages EXCEPT ![p] = parsed]
           /\ pc' = [pc EXCEPT ![p] = IF parsed.none THEN "done" ELSE "parsed"]
    /\ UNCHANGED <<main_vars, file, readable, model, content, buf, outcome, result,
                   file0, nwrites, ntruncates, ncalls, log>>

\* Lines 56-59: filter the messages, default the model.
Filter(p) ==
    /\ pc[p] = "parsed"
    /\ messages' = [messages EXCEPT
                       ![p] = [none |-> FALSE, list |-> filter_messages(@.list)]]
    /\ model' = [model EXCEPT ![p] = EffectiveModel(@)]
    /\ pc' = [pc EXCEPT ![p] = "insert_read"]
    /\ UNCHANGED <<main_vars, file, readable, content, buf, outcome, result,
                   file0, nwrites, ntruncates, ncalls, log>>

\* Lines 62-65: open r+, read, scrub the marker lines.
InsertRead(p) ==
    /\ pc[p] = "insert_read"
    /\ content' = [content EXCEPT ![p] = ScrubLines(file)]
    /\ pc' = [pc EXCEPT ![p] = "insert_truncate"]
    /\ UNCHANGED <<main_vars, file, readable, model, messages, buf, outcome, result,
                   file0, nwrites, ntruncates, ncalls, log>>

\* seek(0); truncate(): the file on disk is empty from here on.
Truncate(p, from, to) ==
    /\ pc[p] = from
    /\ file' = <<>>
    /\ ntruncates' = ntruncates + 1
    /\ pc' = [pc EXCEPT ![p] = to]
    /\ UNCHANGED <<main_vars, readable, model, messages, content, buf, outcome, result,
                   file0, nwrites, ncalls, log>>

\* Leaving the with block closes the file, which writes the pending text.
Close(p, from, to, returned) ==
    /\ pc[p] = from
    /\ file' = Flush(file, buf[p])
    /\ buf' = [buf EXCEPT ![p] = <<>>]
    /\ result' = [result EXCEPT ![p] = returned]
    /\ pc' = [pc EXCEPT ![p] = to]
    /\ UNCHANGED <<main_vars, readable, model, messages, content, outcome,
                   file0, nwrites, ntruncates, ncalls, log>>

\* Lines 66-67.
InsertTruncate(p) == Truncate(p, "insert_truncate", "insert_write1")

\* Line 68: file.write(content)
InsertWrite1(p) ==
    /\ pc[p] = "insert_write1"
    /\ buf' = [buf EXCEPT ![p] = @ \o content[p]]
    /\ nwrites' = nwrites + 1
    /\ pc' = [pc EXCEPT ![p] = "insert_write2"]
    /\ UNCHANGED <<main_vars, file, readable, model, messages, content, outcome, result,
                   file0, ntruncates, ncalls, log>>

\* Line 69: file.write(f"\n\n---\n\nCalling {model}...\n")
InsertWrite2(p) ==
    /\ pc[p] = "insert_write2"
    /\ buf' = [buf EXCEPT ![p] = @ \o PlaceholderBlock(model[p])]
    /\ nwrites' = nwrites + 1
    /\ pc' = [pc EXCEPT ![p] = "insert_close"]
    /\ UNCHANGED <<main_vars, file, readable, model, messages, content, outcome, result,
                   file0, ntruncates, ncalls, log>>

\* End of the with block of line 62.
InsertClose(p) == Close(p, "insert_close", "call", None)

\* Lines 79-84: chat.send_message returns a response.
CallReturn(p) ==
    /\ pc[p] = "call"
    /\ \E response \in Responses :
           outcome' = [outcome EXCEPT ![p] = [raised |-> FALSE, text |-> response]]
    /\ ncalls' = ncalls + 1
    /\ pc' = [pc EXCEPT ![p] = "ok_read"]
    /\ UNCHANGED <<main_vars, file, readable, model, messages, content, buf, result,
                   file0, nwrites, ntruncates, log>>

\* Lines 79-84 and 97: chat.send_message raises.
CallRaise(p) ==
    /\ pc[p] = "call"
    /\ \E e \in Errors :
           outcome' = [outcome EXCEPT ![p] = [raised |-> TRUE, text |-> e]]
    /\ ncalls' = ncalls + 1
    /\ pc' = [pc EXCEPT ![p] = "err_read"]
    /\ UNCHANGED <<main_vars, file, readable, model, messages, content, buf, result,
                   file0, nwrites, ntruncates, log>>

\* Mutant of OkRead: the file is opened only while no other run is between
\* its read and its close.
OkReadLocked(p) ==
    /\ pc[p] = "ok_read"
    /\ \A q \in Proc \ {p} :
           pc[q] \notin {"insert_truncate", "insert_write1", "insert_write2",
                         "insert_close", "ok_truncate", "ok_write1", "ok_write2",
                         "ok_close", "err_truncate", "err_write1", "err_write2",
                         "err_close"}
    /\ content' = [content EXCEPT ![p] = Strip(file)]
    /\ pc' = [pc EXCEPT ![p] = "ok_truncate"]
    /\ UNCHANGED <<main_vars, file, readable, model, messages, buf, outcome, result,
                   file0, nwrites, ntruncates, ncalls, log>>

\* Lines 88-89: content = file.read().strip()
OkRead(p) ==
    /\ pc[p] = "ok_read"
    /\ content' = [content EXCEPT ![p] = Strip(file)]
    /\ pc' = [pc EXCEPT ![p] = "ok_truncate"]
    /\ UNCHANGED <<main_vars, file, readable, model, messages, buf, outcome, result,
                   file0, nwrites, ntruncates, ncalls, log>>

\* Lines 90-91.
OkTruncate(p) == Truncate(p, "ok_truncate", "ok_write1")

\* Line 92: file.write(content.replace(placeholder, ""))
OkWrite1(p) ==
    /\ pc[p] = "ok_write1"
    /\ buf' = [buf EXCEPT ![p] = @ \o RemovePlaceholder(content[p], model[p])]
    /\ nwrites' = nwrites + 1
    /\ pc' = [pc EXCEPT ![p] = "ok_write2"]
    /\ UNCHANGED <<main_vars, file, readable, model, messages, content, outcome, result,
                   file0, ntruncates, ncalls, log>>

\* Line 93: file.write(f"\n\n---\n\n{response}\n\n---\n\n")
OkWrite2(p) ==
    /\ pc[p] = "ok_write2"
    /\ buf' = [buf EXCEPT ![p] = @ \o ResponseBlock(outcome[p].text)]
    /\ nwrites' = nwrites + 1
    /\ log' = Append(log, [kind |-> "response", text |-> outcome[p].text])
    /\ pc' = [pc EXCEPT ![p] = "ok_close"]
    /\ UNCHANGED <<main_vars, file, readable, model, messages, content, outcome, result,
                   file0, ntruncates, ncalls>>

\* End of the with block of line 88, and line 96: return response.
OkClose(p) ==
    Close(p, "ok_close", "done", [none |-> FALSE, text |-> outcome[p].text])

\* Lines 99-100: content = file.read().strip()
ErrRead(p) ==
    /\ pc[p] = "err_read"
    /\ content' = [content EXCEPT ![p] = Strip(file)]
    /\ pc' = [pc EXCEPT ![p] = "err_truncate"]
    /\ UNCHANGED <<main_vars, file, readable, model, messages, buf, outcome, result,
                   file0, nwrites, ntruncates, ncalls, log>>

\* Lines 101-102.
ErrTruncate(p) == Truncate(p, "err_truncate", "err_write1")

\* Mutant of ErrWrite1: the content read is not written back.
ErrWrite1Dropped(p) ==
    /\ pc[p] = "err_write1"
    /\ content' = [content EXCEPT ![p] = RemovePlaceholder(@, model[p])]
    /\ nwrites' = nwrites + 1
    /\ pc' = [pc EXCEPT ![p] = "err_write2"]
    /\ UNCHANGED <<main_vars, file, readable, model, messages, buf, outcome, result,
                   file0, ntruncates, ncalls, log>>

\* Lines 103-104: content = content.replace(placeholder, ""); file.write(content)
ErrWrite1(p) ==
    /\ pc[p] = "err_write1"
    /\ content' = [content EXCEPT ![p] = RemovePlaceholder(@, model[p])]
    /\ buf' = [buf EXCEPT ![p] = @ \o content'[p]]
    /\ nwrites' = nwrites + 1
    /\ pc' = [pc EXCEPT ![p] = "err_write2"]
    /\ UNCHANGED <<main_vars, file, readable, model, messages, outcome, result,
                   file0, ntruncates, ncalls, log>>

\* Mutant of ErrWrite2: the failure path only removes the placeholder and
\* writes no error block.
ErrWrite2Skipped(p) ==
    /\ pc[p] = "err_write2"
    /\ pc' = [pc EXCEPT ![p] = "err_close"]
    /\ UNCHANGED <<main_vars, file, readable, model, messages, content, buf,
                   outcome, result, file0, nwrites, ntruncates, ncalls, log>>

\* Line 105: file.write(f"\n\n---\n\nError: {str(e)}\n\n---\n\n")
ErrWrite2(p) ==
    /\ pc[p] = "err_write2"
    /\ buf' = [buf EXCEPT ![p] = @ \o ErrorBlock(outcome[p].text)]
    /\ nwrites' = nwrites + 1
    /\ log' = Append(log, [kind |-> "error", text |-> outcome[p].text])
    /\ pc' = [pc EXCEPT ![p] = "err_close"]
    /\ UNCHANGED <<main_vars, file, readable, model, messages, content, outcome, result,
                   file0, ntruncates, ncalls>>

\* End of the with block of line 99, and line 107: return None.
ErrClose(p) == Close(p, "err_close", "done", None)

\* The process is killed at any step of a run: what it had not yet written
\* to the disk is lost.
Crash(p) ==
    /\ Running(p)
    /\ pc' = [pc EXCEPT ![p] = "crashed"]
    /\ buf' = [buf EXCEPT ![p] = <<>>]
    /\ UNCHANGED <<main_vars, file, readable, model, messages, content, outcome, result,
                   file0, nwrites, ntruncates, ncalls, log>>

\* One step of a run of process_markdown.
Step(p) ==
    \/ Parse(p)
    \/ Filter(p)
    \/ InsertRead(p)
    \/ InsertTruncate(p)
    \/ InsertWrite1(p)
    \/ InsertWrite2(p)
    \/ InsertClose(p)
    \/ CallReturn(p)
    \/ CallRaise(p)
    \/ OkRead(p)
    \/ OkTruncate(p)
    \/ OkWrite1(p)
    \/ OkWrite2(p)
    \/ OkClose(p)
    \/ ErrRead(p)
    \/ ErrTruncate(p)
    \/ ErrWrite1(p)
    \/ ErrWrite2(p)
    \/ ErrClose(p)

Next == \E p \in Proc : Step(p) \/ Crash(p)

Spec == Init /\ [][Next]_vars

----------------------------------------------------------------------------
(* The failure-path resolve step on its own, applied again and again with  *)
(* no insertion in between.                                                *)

\* How many times the resolve step is applied in a row.
MaxResolves == 2

InitResolve ==
    /\ file \in Files
    /\ readable = TRUE
    /\ \E m \in ModelArgs :
           model = [p \in Proc |-> IF p = 1 THEN EffectiveModel(m) ELSE <<>>]
    /\ argc = 3
    /\ pc = [p \in Proc |-> IF p = 1 THEN "err_read" ELSE "idle"]
    /\ \E e \in Errors :
           outcome = [p \in Proc |->
                         IF p = 1 THEN [raised |-> TRUE, text |-> e] ELSE NoOutcome]
    /\ InitRest

\* The except block of lines 97-107 is entered once more, with another error.
RepeatResolveFailure(p) ==
    /\ pc[p] = "done"
    /\ Len(log) < MaxResolves
    /\ \E e \in Errors :
           outcome' = [outcome EXCEPT ![p] = [raised |-> TRUE, text |-> e]]
    /\ pc' = [pc EXCEPT ![p] = "err_read"]
    /\ UNCHANGED <<main_vars, file, readable, model, messages, content, buf, result,
                   file0, nwrites, ntruncates, ncalls, log>>

NextResolve ==
    \E p \in Proc :
        \/ ErrRead(p)
        \/ ErrTruncate(p)
        \/ ErrWrite1(p)
        \/ ErrWrite2(p)
        \/ ErrClose(p)
        \/ RepeatResolveFailure(p)

SpecResolve == InitResolve /\ [][NextResolve]_vars

----------------------------------------------------------------------------
(* Vocabulary of the properties.                                           *)

EndsWith(s, suffix) ==
    /\ Len(suffix) <= Len(s)
    /\ SubSeq(s, Len(s) - Len(suffix) + 1, Len(s)) = suffix

\* The number of leftmost, non-overlapping occurrences of sub in s.
CountOccurrences(s, sub) == Len(Split(s, sub)) - 1

AllWhitespace(s) == \A k \in 1..Len(s) : s[k] \in Whitespace

\* t is s without its leading and trailing white space.
IsTrimOf(t, s) ==
    IF t = <<>>
    THEN AllWhitespace(s)
    ELSE /\ t[1] \notin Whitespace
         /\ t[Len(t)] \notin Whitespace
         /\ \E i \in 1..Len(s) :
                /\ OccursAt(s, t, i)
                /\ AllWhitespace(SubSeq(s, 1, i - 1))
                /\ AllWhitespace(SubSeq(s, i + Len(t), Len(s)))

\* The run parsed its file and went on (parse did not return None).
ParsedOk(p) == ~messages[p].none

\* The run returned a response: the client call succeeded.
Succeeded(p) == pc[p] = "done" /\ ParsedOk(p) /\ ~outcome[p].raised

\* The run returned None after the client call raised.
Failed(p) == pc[p] = "done" /\ ParsedOk(p) /\ outcome[p].raised

\* The initial file does not already show the run's placeholder text.
FreshOf(p) == ~Contains(file0, CallingText(model[p]))

\* The roles of msgs alternate strictly, beginning with user.
Alternates(msgs) ==
    \A k \in 1..Len(msgs) :
        msgs[k].role = (IF k % 2 = 1 THEN "user" ELSE "assistant")

\* The segments the delimiter cuts the text into, and the (0-based) indices
\* of those that are not empty after trimming.
Segments(text) == Split(text, Delimiter)
NonEmptySegments(text) ==
    {i \in 0..(Len(Segments(text)) - 1) : ~AllWhitespace(Segments(text)[i + 1])}

\* No segment that is empty after trimming comes before a non-empty one.
NoEmptySegmentInside(text) ==
    \A i \in NonEmptySegments(text) : \A j \in 0..i : j \in NonEmptySegments(text)

----------------------------------------------------------------------------
(* C1.  Once process_markdown has completed after a successful parse, on   *)
(* a file that did not show the text before, the file no longer shows the  *)
(* run's 'Calling <model>...' placeholder.                                 *)
C1_PlaceholderGone ==
    \A p \in Proc :
        (pc[p] = "done" /\ ParsedOk(p) /\ FreshOf(p))
            => ~Contains(file, CallingText(model[p]))

(* C2.  Round trip: after a run whose client call succeeded, parsing the   *)
(* file yields the turns sent to the client followed by exactly one        *)
(* assistant turn whose content is the response.                           *)
C2_RoundTrip ==
    \A p \in Proc :
        Succeeded(p)
            => ParseContent(file)
                 = messages[p].list
                   \o <<[role |-> "assistant", content |-> result[p].text]>>

C4_FailureResolved ==
    \A p \in Proc :
        (Failed(p) /\ FreshOf(p))
            => /\ result[p] = None
               /\ EndsWith(file, ErrorBlock(outcome[p].text))
               /\ ~Contains(file, CallingText(model[p]))

(* C5.  When the file cannot be read, the run returns None with no write,  *)
(* no truncate, no placeholder and no client call; the file is unchanged.  *)
C5_ReadErrorNoMutation ==
    ~readable
        => /\ file = file0
           /\ nwrites = 0 /\ ntruncates = 0 /\ ncalls = 0
           /\ \A p \in Proc :
                  /\ buf[p] = <<>>
                  /\ pc[p] \in {"idle", "start", "done", "crashed"}
                  /\ pc[p] = "done" => (messages[p].none /\ result[p] = None)

\* A run on an unreadable, non-empty file has returned.
C5_Witness == ~readable /\ pc[1] = "done" /\ file0 # <<>> /\ result[1] = None

(* C6, as claimed (its particular case).  When the text read by the        *)
(* success-path resolve holds the placeholder block more than once, only   *)
(* one occurrence is removed.                                              *)
C6_OnlyOneRemoved ==
    \A p \in Proc :
        (Succeeded(p)
         /\ CountOccurrences(content[p], PlaceholderPattern(model[p])) >= 2)
            => \E i \in 1..Len(content[p]) :
                   /\ OccursAt(content[p], PlaceholderPattern(model[p]), i)
                   /\ file = SubSeq(content[p], 1, i - 1)
                             \o SubSeq(content[p],
                                       i + Len(PlaceholderPattern(model[p])),
                                       Len(content[p]))
                             \o ResponseBlock(result[p].text)

(* C6, amended.  The success-path resolve removes every occurrence of the  *)
(* placeholder block of the run's model from the trimmed file text and     *)
(* nothing else, then appends the response framed by the delimiter; the    *)
(* file, trailing white space ignored, ends with ---\n\n<response>\n\n---. *)
C6_EveryOccurrenceRemoved ==
    \A p \in Proc :
        Succeeded(p)
            => LET kept == Split(content[p], PlaceholderPattern(model[p]))
               IN  /\ file = Join(kept, <<>>) \o BlockOpen
                             \o result[p].text \o BlockOpen
                   /\ EndsWith(RStrip(file),
                               Delimiter \o <<"\n", "\n">> \o result[p].text
                               \o <<"\n", "\n">> \o Delimiter)

\* A successful run whose resolve read a stale placeholder and its own.
C6_Witness ==
    /\ Succeeded(1)
    /\ CountOccurrences(content[1], PlaceholderPattern(model[1])) >= 2
    /\ result[1].text # <<>>

----------------------------------------------------------------------------
(* C7.  With the placeholder absent, two failure-path resolves in a row    *)
(* leave the prior content in place, followed by exactly the two error     *)
(* blocks (surrounding white space aside), and every prior turn with       *)
(* content is still parsed at its position with its role and content.      *)
C7_ResolveTwiceKeepsContent ==
    \A p \in Proc :
        (pc[p] = "done" /\ Len(log) = 2
         /\ ~Contains(file0, PlaceholderPattern(model[p])))
            => LET prior == ParseContent(file0)
                   now == ParseContent(file)
                   errorText(k) == <<"E", "r", "r", "o", "r", ":", " ">> \o log[k].text
               IN  /\ Strip(file)
                        = Strip(Strip(file0) \o BlockOpen \o errorText(1)
                                \o <<"\n", "\n">> \o Delimiter
                                \o BlockOpen \o errorText(2) \o BlockOpen)
                   /\ EndsWith(file, BlockOpen \o errorText(2) \o BlockOpen)
                   /\ \A k \in 1..Len(prior) :
                          prior[k].content # <<>>
                              => (k <= Len(now) /\ now[k] = prior[k])
                   /\ Len(now) >= 2
                   /\ now[Len(now) - 1].content = errorText(1)
                   /\ now[Len(now)].content = errorText(2)
                   /\ Len(now) <= Len(prior) + 2

\* Two resolves have run on a file that held two turns and no placeholder.
C7_Witness ==
    /\ pc[1] = "done" /\ Len(log) = 2
    /\ ~Contains(file0, PlaceholderPattern(model[1]))
    /\ Len(ParseContent(file0)) >= 2
    /\ log[1].text # log[2].text

----------------------------------------------------------------------------
(* C8.  filter_messages removes a turn if and only if its trimmed content  *)
(* is one of cc, c0..c7; every other turn is kept unchanged, in order.     *)
FilteredFrom(before, after) ==
    LET kept == {k \in 1..Len(before) :
                    \A marker \in ControlMarkers :
                        ~IsTrimOf(marker, before[k].content)}
    IN  /\ Len(after) = Cardinality(kept)
        /\ \A j \in 1..Len(after) :
               \E k \in kept :
                   /\ Cardinality({i \in kept : i < k}) = j - 1
                   /\ after[j] = before[k]

C8_FilterExact ==
    [][\A p \in Proc :
           (pc[p] = "parsed" /\ pc'[p] = "insert_read")
               => FilteredFrom(messages[p].list, messages'[p].list)]_vars

\* The filter has removed a marker turn and kept another turn.
C8_Witness ==
    /\ pc[1] = "insert_read"
    /\ Len(messages[1].list) >= 1
    /\ Len(messages[1].list) < Len(ParseContent(file0))

(* C9.  A text without the delimiter parses to exactly one turn, of role   *)
(* user, whose content is the trimmed text (empty for the empty text).     *)
C9_NoDelimiterOneUserTurn ==
    \A p \in Proc :
        (pc[p] = "parsed" /\ ~Contains(file0, Delimiter))
            => /\ Len(messages[p].list) = 1
               /\ messages[p].list[1].role = "user"
               /\ IsTrimOf(messages[p].list[1].content, file0)

\* A text without delimiter whose surrounding white space was trimmed away.
C9_Witness ==
    /\ pc[1] = "parsed"
    /\ ~Contains(file0, Delimiter)
    /\ messages[1].list[1].content # <<>>
    /\ messages[1].list[1].content # file0

(* C10.  Each rewrite is atomic on disk: at every point of a run, a crash  *)
(* included, the file holds the complete content from before the rewrite   *)
(* or the complete content after it.                                       *)
AfterInsert(p) == ScrubLines(file0) \o PlaceholderBlock(EffectiveModel(model[p]))
AfterResolve(p) ==
    RemovePlaceholder(Strip(AfterInsert(p)), model[p])
    \o (IF outcome[p].raised
        THEN ErrorBlock(outcome[p].text)
        ELSE ResponseBlock(outcome[p].text))

C10_AtomicRewrite ==
    \A p \in Proc :
        pc[p] # "idle" => file \in {file0, AfterInsert(p), AfterResolve(p)}

----------------------------------------------------------------------------
(* C11, as claimed.  A run that parsed its file attempts exactly one       *)
(* client call and performs exactly three file writes.                     *)
C11_ThreeWrites ==
    \A p \in Proc :
        (pc[p] = "done" /\ ParsedOk(p)) => (ncalls = 1 /\ nwrites = 3)

(* C11, amended.  A run that parsed its file attempts exactly one client   *)
(* call and rewrites the file exactly twice, insertion then resolve, each  *)
(* rewrite being one truncate and two file.write calls (four writes), on   *)
(* the success and on the failure path alike; a run whose parse failed     *)
(* makes no call and no write.                                             *)
C11_OneCallTwoRewrites ==
    \A p \in Proc :
        pc[p] = "done"
            => IF ParsedOk(p)
               THEN ncalls = 1 /\ ntruncates = 2 /\ nwrites = 4
               ELSE ncalls = 0 /\ ntruncates = 0 /\ nwrites = 0

\* A run has completed on the failure path.
C11_Witness == Failed(1) /\ nwrites = 4 /\ ncalls = 1

----------------------------------------------------------------------------
(* main(): the command-line entry point around one run.                    *)

\* len(sys.argv): the script name, the file path, the optional model, and
\* one count too few and one too many.
ArgCounts == {1, 2, 3, 4}

\* `if result:` is false for None and for the empty string.
Truthy(returned) == ~returned.none /\ returned.text # <<>>

InitMain ==
    /\ file \in Files
    /\ readable \in BOOLEAN
    /\ argc \in ArgCounts
    /\ \E m \in ModelArgs :
           /\ (argc # 3) => (m = <<>>)
           /\ model = [p \in Proc |-> IF p = 1 THEN m ELSE <<>>]
    /\ pc = [p \in Proc |-> IF p = 1 THEN "main" ELSE "idle"]
    /\ outcome = [p \in Proc |-> NoOutcome]
    /\ InitRest

\* Lines 111-124: a wrong argument count logs the usage and exits with status
\* 1; otherwise process_markdown is called.
MainEnter(p) ==
    /\ pc[p] = "main"
    /\ IF argc < 2 \/ argc > 3
       THEN /\ printed' = "usage"
            /\ status' = "exit_1"
            /\ pc' = [pc EXCEPT ![p] = "exited"]
       ELSE /\ pc' = [pc EXCEPT ![p] = "start"]
            /\ UNCHANGED <<printed, status>>
    /\ UNCHANGED <<argc, file, readable, model, messages, content, buf, outcome,
                   result, file0, nwrites, ntruncates, ncalls, log>>

\* Lines 126-130: the success line is printed when result is true, the
\* failure is logged otherwise; the process then ends.
MainReport(p) ==
    /\ pc[p] = "done"
    /\ printed' = IF Truthy(result[p]) THEN "success" ELSE "failure"
    /\ status' = "exit_0"
    /\ pc' = [pc EXCEPT ![p] = "exited"]
    /\ UNCHANGED <<argc, file, readable, model, messages, content, buf, outcome,
                   result, file0, nwrites, ntruncates, ncalls, log>>

NextMain == \E p \in Proc : MainEnter(p) \/ Step(p) \/ MainReport(p)

SpecMain == InitMain /\ [][NextMain]_vars

(* C12.  main prints the success line if and only if the run wrote a       *)
(* response block to the file, and reports an error otherwise; with a      *)
(* wrong argument count it exits non-zero before any access to the file.   *)
C12_SuccessLineIffResponseWritten ==
    \A p \in Proc :
        pc[p] = "exited"
            => IF argc \in {2, 3}
               THEN /\ printed = "success"
                        <=> \E k \in 1..Len(log) : log[k].kind = "response"
                    /\ printed \in {"success", "failure"}
               ELSE /\ status = "exit_1" /\ printed = "usage"
                    /\ messages[p].none /\ file = file0
                    /\ nwrites = 0 /\ ntruncates = 0 /\ ncalls = 0

----------------------------------------------------------------------------
(* C13.  While the client call of a single run is outstanding, the file's  *)
(* trailing segment is the placeholder of the run's model, and the turns   *)
(* passed to the client are those of the file as it was before the         *)
(* insertion, filtered: the run's own placeholder is not among them.       *)
C13_PlaceholderTrailsDuringCall ==
    \A p \in Proc :
        pc[p] = "call"
            => LET segments == Segments(file)
               IN  /\ Len(segments) >= 2
                   /\ IsTrimOf(CallingText(model[p]), segments[Len(segments)])
                   /\ FilteredFrom(ParseContent(file0), messages[p].list)
                   /\ FreshOf(p)
                          => \A k \in 1..Len(messages[p].list) :
                                 ~Contains(messages[p].list[k].content,
                                           CallingText(model[p]))

\* The call is outstanding and two turns were passed to the client.
C13_Witness == pc[1] = "call" /\ Len(messages[1].list) >= 2 /\ file # file0

----------------------------------------------------------------------------
(* C15.  The insertion removes from the trimmed file content exactly the   *)
(* lines whose trimmed content is a control marker; every other line is    *)
(* kept unchanged and in order, followed by the placeholder block.         *)
IsMarkerLine(line) == \E marker \in ControlMarkers : IsTrimOf(marker, line)

C15_ScrubExact ==
    \A p \in Proc :
        pc[p] = "call"
            => LET lines == Split(Strip(file0), <<"\n">>)
                   kept == SelectSeq(lines, LAMBDA line : ~IsMarkerLine(line))
               IN  file = Join(kept, <<"\n">>)
                          \o BlockOpen \o CallingText(model[p]) \o <<"\n">>

\* The insertion has removed a marker line with white space around the
\* marker, and kept another line.
C15_Witness ==
    /\ pc[1] = "call"
    /\ \E k \in 1..Len(Split(Strip(file0), <<"\n">>)) :
           LET line == Split(Strip(file0), <<"\n">>)[k]
           IN  IsMarkerLine(line) /\ line \notin ControlMarkers
    /\ \E k \in 1..Len(Split(Strip(file0), <<"\n">>)) :
           LET line == Split(Strip(file0), <<"\n">>)[k]
           IN  ~IsMarkerLine(line) /\ line # <<>>

----------------------------------------------------------------------------
(* C16.  For a text with the delimiter, parse_markdown_file splits on each *)
(* occurrence of '---', drops the segments that are empty after trimming,  *)
(* and gives each remaining one the role of its index among all segments   *)
(* (user when even, assistant when odd) and its trimmed text as content;   *)
(* "Q1\n---\nA1\n---\ncc" parses to [user Q1, assistant A1, user cc] and   *)
(* the filter leaves the first two.                                        *)
ParsedBySegmentIndex(text, msgs) ==
    LET kept == NonEmptySegments(text)
    IN  /\ Len(msgs) = Cardinality(kept)
        /\ \A j \in 1..Len(msgs) :
               \E i \in kept :
                   /\ Cardinality({h \in kept : h < i}) = j - 1
                   /\ msgs[j].role = (IF i % 2 = 0 THEN "user" ELSE "assistant")
                   /\ IsTrimOf(msgs[j].content, Segments(text)[i + 1])

C16_RoleBySegmentIndex ==
    \A p \in Proc :
        /\ (pc[p] = "parsed" /\ Contains(file0, Delimiter))
               => ParsedBySegmentIndex(file0, messages[p].list)
        /\ (pc[p] = "parsed" /\ file0 = TranscriptFile)
               => messages[p].list
                    = <<[role |-> "user", content |-> <<"Q", "1">>],
                        [role |-> "assistant", content |-> <<"A", "1">>],
                        [role |-> "user", content |-> <<"c", "c">>]>>
        /\ (pc[p] = "insert_read" /\ file0 = TranscriptFile)
               => messages[p].list
                    = <<[role |-> "user", content |-> <<"Q", "1">>],
                        [role |-> "assistant", content |-> <<"A", "1">>]>>

\* A parse that dropped an empty segment in front of a segment it kept.
C16_Witness ==
    /\ pc[1] = "parsed"
    /\ Contains(file0, Delimiter)
    /\ ~NoEmptySegmentInside(file0)
    /\ Len(messages[1].list) >= 2

\* The scenario file has been parsed and filtered.
C16_ScenarioReached == pc[1] = "insert_read" /\ file0 = TranscriptFile

----------------------------------------------------------------------------
(* C19, as claimed.  For every initial file the turns sent to the client   *)
(* (parse, then filter_messages) are the turns parsed from the file as the *)
(* line scrub of the insertion leaves it, the placeholder left out.        *)
C19_FiltersAgree ==
    \A p \in Proc :
        pc[p] = "call" => messages[p].list = ParseContent(content[p])

\* The k-th of the n newline-separated pieces of segment i of the text is a
\* whole line of the file (not a part of a line that carries a delimiter).
WholeLine(text, i, k, n) ==
    /\ k > 1 \/ i = 0
    /\ k < n \/ i = Len(Segments(text)) - 1

\* Every segment that is only a control marker has the marker on a line of
\* its own, and no other segment holds a control-marker line.
MarkersAreWholeTurns(text) ==
    \A i \in 0..(Len(Segments(text)) - 1) :
        LET lines == Split(Segments(text)[i + 1], <<"\n">>)
        IN  IF IsMarkerLine(Segments(text)[i + 1])
            THEN \E k \in 1..Len(lines) :
                     IsMarkerLine(lines[k]) /\ WholeLine(text, i, k, Len(lines))
            ELSE \A k \in 1..Len(lines) :
                     WholeLine(text, i, k, Len(lines)) => ~IsMarkerLine(lines[k])

(* C19, amended.  The two filters agree for every initial file in which    *)
(* each control-marker line is the whole content of its segment and each   *)
(* segment that is only a control marker has the marker on a line of its   *)
(* own, provided the file has a delimiter or holds no such marker.         *)
C19_FiltersAgreeOnWholeTurnMarkers ==
    \A p \in Proc :
        (pc[p] = "call" /\ MarkersAreWholeTurns(file0)
         /\ (Contains(file0, Delimiter) \/ ~IsMarkerLine(file0)))
            => messages[p].list = ParseContent(content[p])

\* Both filters have removed a marker turn and turns remain.
C19_Witness ==
    /\ pc[1] = "call"
    /\ MarkersAreWholeTurns(file0)
    /\ Contains(file0, Delimiter)
    /\ Len(messages[1].list) < Len(ParseContent(file0))
    /\ Len(messages[1].list) >= 1
    /\ content[1] # Strip(file0)

----------------------------------------------------------------------------
(* A run that is killed while the client call is outstanding, followed by  *)
(* a later run of process_markdown on the same file.                       *)

InitRecovery ==
    /\ file \in Files
    /\ readable = TRUE
    /\ \E m \in ModelArgs :
           /\ model = [p \in Proc |-> IF p = 1 THEN m ELSE <<>>]
           /\ argc = IF m = <<>> THEN 2 ELSE 3
    /\ pc = [p \in Proc |-> IF p = 1 THEN "start" ELSE "idle"]
    /\ outcome = [p \in Proc |-> NoOutcome]
    /\ InitRest

\* The process is killed between the insertion (lines 62-69) and the
\* resolve step (lines 88-93, 99-105), during the call of lines 79-84.
CrashInFlight(p) == pc[p] = "call" /\ Crash(p)

\* A later invocation of process_markdown(file_path, model) on the same file,
\* after the earlier process is gone.
StartLater(p) ==
    /\ pc[p] = "idle"
    /\ \A q \in Proc \ {p} : pc[q] = "crashed"
    /\ \E m \in ModelArgs : model' = [model EXCEPT ![p] = m]
    /\ pc' = [pc EXCEPT ![p] = "start"]
    /\ UNCHANGED <<main_vars, file, readable, messages, content, buf, outcome,
                   result, file0, nwrites, ntruncates, ncalls, log>>

NextRecovery == \E p \in Proc : Step(p) \/ CrashInFlight(p) \/ StartLater(p)

SpecRecovery == InitRecovery /\ [][NextRecovery]_vars

(* C14.  After a crash between insertion and resolve the stale placeholder *)
(* is still in the file, and once the next later run on the file has       *)
(* completed the file shows no placeholder, neither of the crashed run's   *)
(* model nor of the later run's, on a file that showed neither before.     *)
C14_StalePlaceholderRemoved ==
    \A p, q \in Proc :
        (pc[p] = "crashed" /\ FreshOf(p))
            => /\ pc[q] = "idle" => Contains(file, PlaceholderPattern(model[p]))
               /\ (pc[q] = "done" /\ FreshOf(q))
                    => /\ ~Contains(file, CallingText(model[p]))
                       /\ ~Contains(file, CallingText(model[q]))

----------------------------------------------------------------------------
(* Two invocations of process_markdown on the same file at the same time,  *)
(* their steps interleaved in any order.                                   *)

ConcurrentFiles == ScenarioFiles

InitConcurrent ==
    /\ file \in ConcurrentFiles
    /\ readable = TRUE
    /\ model \in [Proc -> ModelArgs]
    /\ argc = IF model[1] = <<>> THEN 2 ELSE 3
    /\ pc = [p \in Proc |-> "start"]
    /\ outcome = [p \in Proc |-> NoOutcome]
    /\ InitRest

NextConcurrent == \E p \in Proc : Step(p)

SpecConcurrent == InitConcurrent /\ [][NextConcurrent]_vars

(* C17.  No locking is performed: a run whose call has come back can      *)
(* always open and read the file for its resolve step, and a run that has  *)
(* read the file can always truncate it, also while the other run is       *)
(* between the read and the close of a rewrite of the same file.           *)
C17_NoLocking ==
    \A p \in Proc :
        /\ pc[p] = "ok_read" => ENABLED OkRead(p)
        /\ pc[p] = "err_read" => ENABLED ErrRead(p)
        /\ pc[p] = "insert_truncate" => ENABLED InsertTruncate(p)
        /\ pc[p] = "ok_truncate" => ENABLED OkTruncate(p)
        /\ pc[p] = "err_truncate" => ENABLED ErrTruncate(p)

\* Both runs have completed with a response, and the transcript is corrupt:
\* one of the two responses is lost.
C17_Witness ==
    /\ file0 = HelloFile
    /\ \A p \in Proc : Succeeded(p) /\ outcome[p].text = <<"H", "i", "!">>
    /\ Len(log) = 2
    /\ CountOccurrences(file, <<"H", "i", "!">>) < 2
    /\ Contains(file, HelloFile)

\* Both runs have completed and the original content is lost.
C17_ContentLost ==
    /\ file0 = HelloFile
    /\ \A p \in Proc : pc[p] = "done"
    /\ ~Contains(file, HelloFile)

\* Both runs have completed and a placeholder block persists.
C17_PlaceholderPersists ==
    /\ file0 = HelloFile
    /\ \A p \in Proc : pc[p] = "done"
    /\ \E p \in Proc : Contains(file, CallingText(model[p]))

----------------------------------------------------------------------------
(* Rounds on one file: a run completes, the user appends text to the note  *)
(* and invokes the program again.                                          *)

\* How many runs are made on the file.
MaxRounds == 2

RoundFiles == TextsOf(1) \cup {HelloFile}

\* What the user types at the end of the note between two runs.
UserTexts == {<<"b">>, <<" ">>, CallingText(<<"m">>)}

\* The runs that have written their block so far.
RunsLogged(entries) ==
    Cardinality({k \in 1..Len(entries) : entries[k].kind # "user"})

InitRounds ==
    /\ file \in RoundFiles
    /\ readable = TRUE
    /\ \E m \in ModelArgs :
           /\ model = [p \in Proc |-> IF p = 1 THEN m ELSE <<>>]
           /\ argc = IF m = <<>> THEN 2 ELSE 3
    /\ pc = [p \in Proc |-> IF p = 1 THEN "start" ELSE "idle"]
    /\ outcome = [p \in Proc |-> NoOutcome]
    /\ InitRest

\* The user edits the note after a run: text is appended to the file.
UserAppend(p) ==
    /\ pc[p] = "done"
    /\ RunsLogged(log) < MaxRounds
    /\ \E text \in UserTexts :
           /\ file' = file \o text
           /\ log' = Append(log, [kind |-> "user", text |-> text])
    /\ pc' = [pc EXCEPT ![p] = "edited"]
    /\ UNCHANGED <<main_vars, readable, model, messages, content, buf, outcome,
                   result, file0, nwrites, ntruncates, ncalls>>

\* The program is invoked again on the edited note: a new run of
\* process_markdown(file_path, model), its locals fresh.
Rerun(p) ==
    /\ pc[p] = "edited"
    /\ \E m \in ModelArgs : model' = [model EXCEPT ![p] = m]
    /\ messages' = [messages EXCEPT ![p] = NoMessages]
    /\ content' = [content EXCEPT ![p] = <<>>]
    /\ outcome' = [outcome EXCEPT ![p] = NoOutcome]
    /\ result' = [result EXCEPT ![p] = None]
    /\ pc' = [pc EXCEPT ![p] = "start"]
    /\ UNCHANGED <<main_vars, file, readable, buf, file0, nwrites, ntruncates,
                   ncalls, log>>

NextRounds == \E p \in Proc : Step(p) \/ UserAppend(p) \/ Rerun(p)

SpecRounds == InitRounds /\ [][NextRounds]_vars

\* No line of the text is a control-marker line.
NoMarkerLine(text) ==
    \A k \in 1..Len(Split(text, <<"\n">>)) :
        ~IsMarkerLine(Split(text, <<"\n">>)[k])

\* The text shows no placeholder text of a model the program is run with.
NoPlaceholderText(text) ==
    \A m \in ModelArgs : ~Contains(text, CallingText(EffectiveModel(m)))

\* The turns the rounds logged so far should read as, after the first text.
RECURSIVE TurnsOf(_)
TurnsOf(entries) ==
    IF entries = <<>> THEN <<>>
    ELSE <<[role |-> IF Head(entries).kind = "user" THEN "user" ELSE "assistant",
            content |-> IF Head(entries).kind = "error"
                        THEN <<"E", "r", "r", "o", "r", ":", " ">> \o Head(entries).text
                        ELSE Strip(Head(entries).text)]>>
         \o TurnsOf(Tail(entries))

(* C18.  From a non-empty file with no delimiter, no control-marker line   *)
(* and no placeholder text, after any number of rounds of a completed run  *)
(* (non-empty response or error text) and a user append (non-empty text    *)
(* with no delimiter and no control-marker line), parsing the file yields  *)
(* strictly alternating roles starting with user: the first text, then     *)
(* every appended block as an assistant turn and every user text as a user *)
(* turn.                                                                   *)
C18_RoundsWellFormed ==
    \A p \in Proc :
        ( /\ pc[p] \in {"done", "edited"}
          /\ file0 # <<>>
          /\ ~Contains(file0, Delimiter)
          /\ NoMarkerLine(file0)
          /\ NoPlaceholderText(file0)
          /\ \A k \in 1..Len(log) :
                 /\ log[k].text # <<>>
                 /\ ~Contains(log[k].text, Delimiter)
                 /\ log[k].kind = "user" => NoMarkerLine(log[k].text)
                 /\ log[k].kind # "user" => NoPlaceholderText(log[k].text) )
            => /\ ParseContent(file)
                 = <<[role |-> "user", content |-> Strip(file0)]>> \o TurnsOf(log)
               /\ Alternates(ParseContent(file))

====
